---- MODULE Spec2Model ----
(***************************************************************************)
(* A model of validateJSON.JSONValidator: the three mutually recursive     *)
(* operations validate, validate_expected and validate_optional, their     *)
(* verdicts, the diagnostics they log and the lookups that raise.          *)
(***************************************************************************)
EXTENDS Integers, Sequences, FiniteSets, TLC

VARIABLES json_object, expected_keys, optional_keys, called, ret, log

vars == <<json_object, expected_keys, optional_keys, called, ret, log>>

RECURSIVE validate(_, _, _)
RECURSIVE validate_expected(_, _)
RECURSIVE validate_optional(_, _)
RECURSIVE expected_loop(_, _, _)
RECURSIVE optional_loop(_, _, _)

(***************************************************************************)
(* Python values.  A value carries its runtime type; a dict carries its    *)
(* items, a function from key names to values.  param_type in a schema is  *)
(* the name of the type.                                                   *)
(***************************************************************************)
PyStr(v) == [type |-> "str", val |-> v]
PyInt(v) == [type |-> "int", val |-> v]
PyBool(v) == [type |-> "bool", val |-> v]
PyDict(items) == [type |-> "dict", items |-> items]
EmptyItems == [k \in {} |-> PyStr("")]

\* isinstance(value, param_type): bool is a subclass of int.
isinstance(value, param_type) ==
    \/ value.type = param_type
    \/ value.type = "bool" /\ param_type = "int"

\* value == other: int and bool compare by number (True == 1), the rest by
\* type and content.
PyEq(value, other) ==
    IF value.type \in {"int", "bool"} /\ other.type \in {"int", "bool"}
    THEN value.val = other.val
    ELSE value.type = other.type /\ value = other

\* value in possible_values (a list).
PyIn(value, possible_values) ==
    \E i \in DOMAIN possible_values : PyEq(value, possible_values[i])

(***************************************************************************)
(* The outcome of a call: the value returned ("True", "False") or "Raise"  *)
(* for a KeyError that leaves the call, and the diagnostics logged.        *)
(***************************************************************************)
Return(value) == [ret |-> value, log |-> <<>>]
LogError(msg) == [ret |-> "False", log |-> <<msg>>]
KeyError == [ret |-> "Raise", log |-> <<>>]
After(logged, outcome) == [ret |-> outcome.ret, log |-> logged \o outcome.log]

\* optional_keys=None, and a list given for it.
None == [none |-> TRUE]
Keys(list) == [keys |-> list]

ParamNames(keys) == {keys[i].param_name : i \in DOMAIN keys}

\* conditional_branch returning False for a dependency value without a
\* branch, as dependence_info.get(depends_on_val) would allow.
conditional_branch_default(obj, expected_key) ==
    LET ck == expected_key.conditional_keys
    IN  IF ck.depends_on \notin DOMAIN obj THEN KeyError
        ELSE LET depends_on_val == obj[ck.depends_on]
             IN  IF ~(depends_on_val.type = "str"
                      /\ depends_on_val.val \in DOMAIN ck.dependence_info)
                 THEN Return("False")
                 ELSE LET info == ck.dependence_info[depends_on_val.val]
                      IN  IF "optional_keys" \notin DOMAIN info THEN KeyError
                          ELSE IF "expected_keys" \notin DOMAIN info THEN KeyError
                          ELSE validate(obj[expected_key.param_name].items,
                                        info.expected_keys,
                                        Keys(info.optional_keys))

\* lines 144-156: the branch the dependency value selects, validated by
\* validate; a failed lookup raises.
conditional_branch(obj, expected_key) ==
    LET ck == expected_key.conditional_keys
    IN  IF ck.depends_on \notin DOMAIN obj THEN KeyError
        ELSE LET depends_on_val == obj[ck.depends_on]
             IN  IF ~(depends_on_val.type = "str"
                      /\ depends_on_val.val \in DOMAIN ck.dependence_info)
                 THEN KeyError
                 ELSE LET info == ck.dependence_info[depends_on_val.val]
                      IN  IF "optional_keys" \notin DOMAIN info THEN KeyError
                          ELSE IF "expected_keys" \notin DOMAIN info THEN KeyError
                          ELSE validate(obj[expected_key.param_name].items,
                                        info.expected_keys,
                                        Keys(info.optional_keys))

\* nested_expected recursing through validate, with the optional_keys of the
\* key when it lists them.
nested_expected_via_validate(obj, expected_key) ==
    IF "expected_keys" \in DOMAIN expected_key
    THEN validate(obj[expected_key.param_name].items,
                  expected_key.expected_keys,
                  IF "optional_keys" \in DOMAIN expected_key
                  THEN Keys(expected_key.optional_keys)
                  ELSE None)
    ELSE Return("True")

\* lines 131-143: the nested dict of a key that lists expected_keys.
nested_expected(obj, expected_key) ==
    IF "expected_keys" \in DOMAIN expected_key
    THEN validate_expected(obj[expected_key.param_name].items,
                           expected_key.expected_keys)
    ELSE Return("True")

\* expected_loop going on to the next key after a conditional key whose
\* branch validated.
expected_loop_continue(obj, keys, i) ==
    IF i > Len(keys) THEN Return("True")
    ELSE LET expected_key == keys[i]
         IN  IF /\ "possible_values" \in DOMAIN expected_key
                /\ ~PyIn(obj[expected_key.param_name], expected_key.possible_values)
             THEN LogError("incorrect expected parameter value")
             ELSE IF expected_key.param_type = "dict"
             THEN LET nested == nested_expected(obj, expected_key)
                  IN  IF nested.ret # "True" THEN nested
                      ELSE IF "conditional_keys" \in DOMAIN expected_key
                      THEN LET branch == conditional_branch(obj, expected_key)
                           IN  IF branch.ret # "True"
                               THEN After(nested.log, branch)
                               ELSE After(nested.log \o branch.log,
                                          expected_loop(obj, keys, i + 1))
                      ELSE After(nested.log, expected_loop(obj, keys, i + 1))
             ELSE expected_loop(obj, keys, i + 1)

\* lines 121-158: the loop over expected_keys, from its i-th key on.
expected_loop(obj, keys, i) ==
    IF i > Len(keys) THEN Return("True")
    ELSE LET expected_key == keys[i]
         IN  IF /\ "possible_values" \in DOMAIN expected_key
                /\ ~PyIn(obj[expected_key.param_name], expected_key.possible_values)
             THEN LogError("incorrect expected parameter value")
             ELSE IF expected_key.param_type = "dict"
             THEN LET nested == nested_expected(obj, expected_key)
                  IN  IF nested.ret # "True" THEN nested
                      ELSE IF "conditional_keys" \in DOMAIN expected_key
                      THEN After(nested.log, conditional_branch(obj, expected_key))
                      ELSE After(nested.log, expected_loop(obj, keys, i + 1))
             ELSE expected_loop(obj, keys, i + 1)

\* validate_expected checking the types of dict keys only.
validate_expected_dicts_only(obj, keys) ==
    IF \E i \in DOMAIN keys : keys[i].param_name \notin DOMAIN obj
    THEN LogError("missing expected parameter")
    ELSE IF \E i \in DOMAIN keys :
                /\ keys[i].param_type = "dict"
                /\ ~isinstance(obj[keys[i].param_name], keys[i].param_type)
    THEN LogError("incorrect expected parameter type")
    ELSE expected_loop(obj, keys, 1)

\* lines 86-158
validate_expected(obj, keys) ==
    IF \E i \in DOMAIN keys : keys[i].param_name \notin DOMAIN obj
    THEN LogError("missing expected parameter")
    ELSE IF \E i \in DOMAIN keys :
                ~isinstance(obj[keys[i].param_name], keys[i].param_type)
    THEN LogError("incorrect expected parameter type")
    ELSE expected_loop(obj, keys, 1)

\* lines 179-205: the loop over optional_keys, from its i-th key on.
optional_loop(obj, keys, i) ==
    IF i > Len(keys) THEN Return("True")
    ELSE LET optional_key == keys[i]
         IN  IF optional_key.param_name \in DOMAIN obj
             THEN IF ~isinstance(obj[optional_key.param_name], optional_key.param_type)
                  THEN LogError("invalid optional parameter type")
                  ELSE IF /\ optional_key.param_type = "dict"
                          /\ "optional_keys" \in DOMAIN optional_key
                  THEN validate_optional(obj[optional_key.param_name].items,
                                         optional_key.optional_keys)
                  ELSE optional_loop(obj, keys, i + 1)
             ELSE optional_loop(obj, keys, i + 1)

\* lines 178-205
validate_optional(obj, keys) == optional_loop(obj, keys, 1)

\* lines 215-222
valid_keys(keys, optional) ==
    IF optional # None
    THEN ParamNames(keys) \cup ParamNames(optional.keys)
    ELSE ParamNames(keys)

\* validate without its unknown-key check (lines 224-233 left out).
validate_unknown_allowed(obj, keys, optional) ==
    LET expected == validate_expected(obj, keys)
    IN  IF expected.ret = "True"
        THEN IF optional # None
             THEN After(expected.log, validate_optional(obj, optional.keys))
             ELSE After(expected.log, Return("True"))
        ELSE expected

\* validate logging a failure of validate_expected a second time.
validate_logs_again(obj, keys, optional) ==
    IF \E parameter \in DOMAIN obj : parameter \notin valid_keys(keys, optional)
    THEN LogError("invalid parameter detected")
    ELSE LET expected == validate_expected(obj, keys)
         IN  IF expected.ret = "True"
             THEN IF optional # None
                  THEN After(expected.log, validate_optional(obj, optional.keys))
                  ELSE After(expected.log, Return("True"))
             ELSE IF expected.ret = "False"
             THEN After(expected.log, LogError("validation failure"))
             ELSE expected

\* lines 215-250
validate(obj, keys, optional) ==
    IF \E parameter \in DOMAIN obj : parameter \notin valid_keys(keys, optional)
    THEN LogError("invalid parameter detected")
    ELSE LET expected == validate_expected(obj, keys)
         IN  IF expected.ret = "True"
             THEN IF optional # None
                  THEN After(expected.log, validate_optional(obj, optional.keys))
                  ELSE After(expected.log, Return("True"))
             ELSE expected

(***************************************************************************)
(* The inputs of a call: schemas and data of bounded size.                 *)
(***************************************************************************)
\* The longest list of expected keys, and of optional keys, at the top level.
MaxKeys == 2

Key(name, type) == [param_name |-> name, param_type |-> type]

Path == Key("path", "str")
Url == Key("url", "str")

\* dependence_info as in the docstring of validate_expected: every branch
\* lists expected_keys and optional_keys.
FullInfo ==
    [local |-> [expected_keys |-> <<Path>>, optional_keys |-> <<Url>>],
     remote |-> [expected_keys |-> <<Url>>, optional_keys |-> <<>>]]

\* dependence_info whose branches list expected_keys only.
BareInfo ==
    [local |-> [expected_keys |-> <<Path>>],
     remote |-> [expected_keys |-> <<Url>>]]

Conditional(info) == [depends_on |-> "kind", dependence_info |-> info]

\* The descriptors an expected_keys list is drawn from.
ExpectedPool ==
    { Key("kind", "str"),
      Key("kind", "str") @@ [possible_values |-> <<PyStr("local")>>],
      Key("kind", "int") @@ [possible_values |-> <<PyInt("1")>>],
      Key("info", "dict"),
      Key("info", "dict") @@ [expected_keys |-> <<Path>>],
      Key("info", "dict") @@ [expected_keys |-> <<Path>>, optional_keys |-> <<Url>>],
      Key("info", "dict") @@ [conditional_keys |-> Conditional(FullInfo)],
      Key("info", "dict") @@ [conditional_keys |-> Conditional(BareInfo)],
      Key("info", "dict") @@ [expected_keys |-> <<Path>>,
                              conditional_keys |-> Conditional(FullInfo)],
      Key("cfg", "dict") @@ [expected_keys |-> <<Path>>],
      Key("cfg", "dict") @@ [conditional_keys |-> Conditional(FullInfo)] }

\* The descriptors an optional_keys list is drawn from.
OptionalPool ==
    { Key("kind", "int"),
      Key("info", "dict") @@ [optional_keys |-> <<Url>>] }

\* The lists of at most n descriptors of pool, no name twice.
RECURSIVE KeyLists(_, _)
KeyLists(pool, n) ==
    IF n = 0 THEN {<<>>}
    ELSE LET shorter == KeyLists(pool, n - 1)
         IN  shorter \cup
             { Append(list, key) : <<list, key>> \in
                 { p \in shorter \X pool : p[2].param_name \notin ParamNames(p[1]) } }

ExpectedLists == KeyLists(ExpectedPool, MaxKeys)
OptionalLists == {None} \cup { Keys(list) : list \in KeyLists(OptionalPool, MaxKeys) }

\* The values a key of the data takes.
Values ==
    [ kind |-> {PyStr("local"), PyStr("remote"), PyStr("other"), PyBool("1")},
      info |-> { PyStr("local"),
                 PyDict(EmptyItems),
                 PyDict([path |-> PyStr("/tmp")]),
                 PyDict([path |-> PyInt("80")]),
                 PyDict([url |-> PyStr("x")]),
                 PyDict([path |-> PyStr("/tmp"), url |-> PyStr("x")]),
                 PyDict([path |-> PyStr("/tmp"), url |-> PyInt("80")]) },
      cfg |-> {PyDict(EmptyItems), PyDict([path |-> PyStr("/tmp")])} ]

\* The data: any of the keys, each with any of its values.
Objects ==
    UNION { [names -> UNION {Values[n] : n \in names}] : names \in SUBSET DOMAIN Values }

JsonObjects == { obj \in Objects : \A n \in DOMAIN obj : obj[n] \in Values[n] }

(***************************************************************************)
(* The state: the arguments of a call, the method called and its outcome.  *)
(***************************************************************************)
Init ==
    /\ json_object \in JsonObjects
    /\ expected_keys \in ExpectedLists
    /\ optional_keys \in OptionalLists
    /\ called = "none"
    /\ ret = "none"
    /\ log = <<>>

Validate ==
    LET outcome == validate(json_object, expected_keys, optional_keys)
    IN  /\ called' = "validate"
        /\ ret' = outcome.ret
        /\ log' = outcome.log
        /\ UNCHANGED <<json_object, expected_keys, optional_keys>>

ValidateExpected ==
    LET outcome == validate_expected(json_object, expected_keys)
    IN  /\ called' = "validate_expected"
        /\ ret' = outcome.ret
        /\ log' = outcome.log
        /\ UNCHANGED <<json_object, expected_keys, optional_keys>>

ValidateOptional ==
    /\ optional_keys # None
    /\ LET outcome == validate_optional(json_object, optional_keys.keys)
       IN  /\ called' = "validate_optional"
           /\ ret' = outcome.ret
           /\ log' = outcome.log
    /\ UNCHANGED <<json_object, expected_keys, optional_keys>>

Next == Validate \/ ValidateExpected \/ ValidateOptional

Spec == Init /\ [][Next]_vars

(***************************************************************************)
(* What the claims speak of, stated over a call's arguments.               *)
(***************************************************************************)
Called(methods) == called \in methods
Returned == ret \in {"True", "False"}
Outcome == [ret |-> ret, log |-> log]

\* A key of the data that no expected and no optional key names.
UnknownKeys(obj, keys, optional) ==
    { p \in DOMAIN obj :
        /\ p \notin ParamNames(keys)
        /\ optional = None \/ p \notin ParamNames(optional.keys) }

AllPresent(obj, keys) ==
    \A i \in DOMAIN keys : keys[i].param_name \in DOMAIN obj

AllTyped(obj, keys) ==
    \A i \in DOMAIN keys : isinstance(obj[keys[i].param_name], keys[i].param_type)

ValuePermitted(obj, key) ==
    "possible_values" \in DOMAIN key => PyIn(obj[key.param_name], key.possible_values)

IsNested(key) == key.param_type = "dict" /\ "expected_keys" \in DOMAIN key
IsConditional(key) == key.param_type = "dict" /\ "conditional_keys" \in DOMAIN key

NestedHolds(obj, key) ==
    IsNested(key) =>
        validate_expected(obj[key.param_name].items, key.expected_keys).ret = "True"

\* The loop over keys comes to its i-th key: presence and types hold, and
\* every earlier key passed its checks and carries no conditional.
Reached(obj, keys, i) ==
    /\ AllPresent(obj, keys)
    /\ AllTyped(obj, keys)
    /\ \A j \in 1..(i - 1) :
        /\ ValuePermitted(obj, keys[j])
        /\ NestedHolds(obj, keys[j])
        /\ ~IsConditional(keys[j])

\* The loop evaluates the conditional of its i-th key.
Evaluated(obj, keys, i) ==
    /\ Reached(obj, keys, i)
    /\ IsConditional(keys[i])
    /\ ValuePermitted(obj, keys[i])
    /\ NestedHolds(obj, keys[i])

\* The dependency value of a conditional key selects a branch.
HasBranch(obj, key) ==
    LET ck == key.conditional_keys
    IN  /\ ck.depends_on \in DOMAIN obj
        /\ obj[ck.depends_on].type = "str"
        /\ obj[ck.depends_on].val \in DOMAIN ck.dependence_info

Branch(obj, key) ==
    key.conditional_keys.dependence_info[obj[key.conditional_keys.depends_on].val]

\* validate is past its unknown-key check, or validate_expected was called.
ExpectedRuns ==
    \/ Called({"validate_expected"})
    \/ /\ Called({"validate"})
       /\ UnknownKeys(json_object, expected_keys, optional_keys) = {}

(***************************************************************************)
(* The claims.                                                             *)
(***************************************************************************)

\* C1: validate returns False for data with a key that no expected and no
\* optional key names, and the only diagnostic logged is the unknown-key one
\* (no presence, type or value check has run).
C1_UnknownKeyRejected ==
    ( /\ Called({"validate"})
      /\ UnknownKeys(json_object, expected_keys, optional_keys) # {} )
    => /\ ret = "False"
       /\ log = <<"invalid parameter detected">>

\* An unknown key in data that also misses an expected key and has one of the
\* wrong type, with and without optional_keys.
C1_Witness ==
    /\ Called({"validate"})
    /\ UnknownKeys(json_object, expected_keys, optional_keys) # {}
    /\ optional_keys # None
    /\ ~AllPresent(json_object, expected_keys)
    /\ \E i \in DOMAIN expected_keys :
        /\ expected_keys[i].param_name \in DOMAIN json_object
        /\ ~isinstance(json_object[expected_keys[i].param_name],
                       expected_keys[i].param_type)
    /\ ret = "False"

\* C2: when validate returns True, every expected key at the top level is in
\* the data with a value of its param_type, whatever the order of the keys
\* and whether or not a conditional key ended the loop.
C2_TrueImpliesRequired ==
    (Called({"validate"}) /\ ret = "True")
    => \A i \in DOMAIN expected_keys :
        /\ expected_keys[i].param_name \in DOMAIN json_object
        /\ isinstance(json_object[expected_keys[i].param_name],
                      expected_keys[i].param_type)

\* validate returned True where a conditional key ended the loop before the
\* last expected key.
C2_Witness ==
    /\ Called({"validate"})
    /\ ret = "True"
    /\ Len(expected_keys) = 2
    /\ Evaluated(json_object, expected_keys, 1)

\* C9: a call of validate that returns False has logged exactly one
\* diagnostic over the whole call tree, and one that returns True has logged
\* none.
C9_OneDiagnostic ==
    Called({"validate"})
    => /\ ret = "False" => Len(log) = 1
       /\ ret = "True" => log = <<>>

\* validate returned False for a failure found below a conditional key, in
\* the nested call of validate.
C9_Witness ==
    /\ Called({"validate"})
    /\ ExpectedRuns
    /\ ret = "False"
    /\ Len(log) = 1
    /\ \E i \in DOMAIN expected_keys : Evaluated(json_object, expected_keys, i)

\* The names a key with a fixed nested schema lists for its nested dict.
NestedNames(key) ==
    ParamNames(key.expected_keys)
        \cup (IF "optional_keys" \in DOMAIN key
              THEN ParamNames(key.optional_keys) ELSE {})

\* A nested optional key of the nested dict has the wrong type.
NestedOptionalMistyped(items, key) ==
    /\ "optional_keys" \in DOMAIN key
    /\ \E j \in DOMAIN key.optional_keys :
        /\ key.optional_keys[j].param_name \in DOMAIN items
        /\ ~isinstance(items[key.optional_keys[j].param_name],
                       key.optional_keys[j].param_type)

\* C3, as the spec states it: a nested dict of a key with a fixed nested
\* schema that holds a key named in neither nested list, or a nested optional
\* key of the wrong type, makes validate return False.
C3_NestedUnknownRejected ==
    ( /\ Called({"validate"})
      /\ \E i \in DOMAIN expected_keys :
            LET key == expected_keys[i]
            IN  /\ IsNested(key)
                /\ key.param_name \in DOMAIN json_object
                /\ json_object[key.param_name].type = "dict"
                /\ LET items == json_object[key.param_name].items
                   IN  \/ \E m \in DOMAIN items : m \notin NestedNames(key)
                       \/ NestedOptionalMistyped(items, key) )
    => ret = "False"

\* The key named n has a fixed nested schema and nothing else reads its
\* nested dict: no conditional, no possible_values, no other key of the name.
FixedNestedOnly(keys, optional, n) ==
    /\ Cardinality({i \in DOMAIN keys : keys[i].param_name = n}) = 1
    /\ \E i \in DOMAIN keys :
        /\ keys[i].param_name = n
        /\ IsNested(keys[i])
        /\ "conditional_keys" \notin DOMAIN keys[i]
        /\ "possible_values" \notin DOMAIN keys[i]
    /\ optional = None \/ n \notin ParamNames(optional.keys)

\* The data without the keys of such nested dicts that their expected_keys
\* do not name.
Stripped(obj, keys, optional) ==
    [ n \in DOMAIN obj |->
        IF FixedNestedOnly(keys, optional, n) /\ obj[n].type = "dict"
        THEN LET key == CHOOSE k \in {keys[i] : i \in DOMAIN keys} : k.param_name = n
             IN  PyDict([ m \in DOMAIN obj[n].items \cap ParamNames(key.expected_keys)
                            |-> obj[n].items[m] ])
        ELSE obj[n] ]

\* C3, amended: the nested dict of a key with a fixed nested schema is
\* validated by validate_expected with the nested expected_keys alone.  When
\* the loop comes to the key and that nested call does not return True, its
\* outcome is the outcome of validate_expected; keys of the nested dict that
\* the nested expected_keys do not name (unknown ones, nested optional ones
\* of any type) do not change the outcome of validate or validate_expected.
C3_NestedExpectedOnly ==
    /\ Called({"validate_expected"})
        => Outcome = validate_expected(Stripped(json_object, expected_keys, None),
                                       expected_keys)
    /\ Called({"validate"})
        => Outcome = validate(Stripped(json_object, expected_keys, optional_keys),
                              expected_keys, optional_keys)
    /\ ExpectedRuns
        => \A i \in DOMAIN expected_keys :
            ( /\ Reached(json_object, expected_keys, i)
              /\ ValuePermitted(json_object, expected_keys[i])
              /\ ~NestedHolds(json_object, expected_keys[i]) )
            => Outcome = validate_expected(
                            json_object[expected_keys[i].param_name].items,
                            expected_keys[i].expected_keys)

\* validate returned True for data whose nested dict holds a key its nested
\* expected_keys do not name.
C3_Witness ==
    /\ Called({"validate"})
    /\ ret = "True"
    /\ Stripped(json_object, expected_keys, optional_keys) # json_object

\* validate returned False from the nested call of validate_expected.
C3_WitnessNestedFails ==
    /\ Called({"validate"})
    /\ ExpectedRuns
    /\ \E i \in DOMAIN expected_keys :
        /\ Reached(json_object, expected_keys, i)
        /\ ~NestedHolds(json_object, expected_keys[i])
    /\ ret = "False"

\* C6: when presence and type checks pass and the loop evaluates a
\* conditional key whose dependency value has no branch in dependence_info,
\* the call returns neither True nor False: it raises, and it has logged no
\* diagnostic.
C6_MissingBranchRaises ==
    ExpectedRuns
    => \A i \in DOMAIN expected_keys :
        ( /\ Evaluated(json_object, expected_keys, i)
          /\ expected_keys[i].conditional_keys.depends_on \in DOMAIN json_object
          /\ ~HasBranch(json_object, expected_keys[i]) )
        => /\ ret = "Raise"
           /\ log = <<>>

\* validate raised for a dependency value without a branch.
C6_Witness ==
    /\ Called({"validate"})
    /\ ExpectedRuns
    /\ \E i \in DOMAIN expected_keys :
        /\ Evaluated(json_object, expected_keys, i)
        /\ expected_keys[i].conditional_keys.depends_on \in DOMAIN json_object
        /\ json_object[expected_keys[i].conditional_keys.depends_on] = PyStr("other")
        /\ ~HasBranch(json_object, expected_keys[i])
    /\ ret = "Raise"

\* The branch selected lists both expected_keys and optional_keys.
FullBranch(obj, key) ==
    /\ HasBranch(obj, key)
    /\ {"expected_keys", "optional_keys"} \subseteq DOMAIN Branch(obj, key)

\* C10: in validate_expected, once presence and types hold, the first
\* conditional key the loop evaluates ends it: the outcome is that of
\* validate on the nested dict with the expected_keys and optional_keys of
\* the branch selected, whatever the later keys of the list check.
C10_FirstConditionalDecides ==
    Called({"validate_expected"})
    => \A i \in DOMAIN expected_keys :
        ( /\ Evaluated(json_object, expected_keys, i)
          /\ FullBranch(json_object, expected_keys[i]) )
        => Outcome = validate(json_object[expected_keys[i].param_name].items,
                              Branch(json_object, expected_keys[i]).expected_keys,
                              Keys(Branch(json_object, expected_keys[i]).optional_keys))

\* validate_expected returned True from a conditional key although a later
\* key fails its value or nested check.
C10_Witness ==
    /\ Called({"validate_expected"})
    /\ Len(expected_keys) > 1
    /\ Evaluated(json_object, expected_keys, 1)
    /\ FullBranch(json_object, expected_keys[1])
    /\ \/ ~ValuePermitted(json_object, expected_keys[2])
       \/ ~NestedHolds(json_object, expected_keys[2])
    /\ ret = "True"

\* The schema invariants of a list of expected keys: no name twice, and
\* every conditional key depends on an expected key of the same list whose
\* possible_values all have a branch.
SchemaInvariants(keys) ==
    /\ Cardinality(ParamNames(keys)) = Len(keys)
    /\ \A i \in DOMAIN keys :
        "conditional_keys" \in DOMAIN keys[i]
        => \E j \in DOMAIN keys :
            /\ keys[j].param_name = keys[i].conditional_keys.depends_on
            /\ "possible_values" \in DOMAIN keys[j]
            /\ \A v \in DOMAIN keys[j].possible_values :
                /\ keys[j].possible_values[v].type = "str"
                /\ keys[j].possible_values[v].val
                       \in DOMAIN keys[i].conditional_keys.dependence_info

\* Every branch of every conditional key lists expected_keys and
\* optional_keys.
FullBranches(keys) ==
    \A i \in DOMAIN keys :
        "conditional_keys" \in DOMAIN keys[i]
        => \A v \in DOMAIN keys[i].conditional_keys.dependence_info :
            {"expected_keys", "optional_keys"}
                \subseteq DOMAIN keys[i].conditional_keys.dependence_info[v]

\* C4: for a schema that satisfies the schema invariants, validate and
\* validate_expected end with True or False for every data, also when the
\* dependency value is outside its possible_values and the conditional key
\* comes before the key it depends on.  (Stated for schemas whose branches
\* list both expected_keys and optional_keys.)
C4_NeverRaises ==
    ( /\ Called({"validate", "validate_expected"})
      /\ SchemaInvariants(expected_keys)
      /\ FullBranches(expected_keys) )
    => Returned

\* Every optional key that is present has its type, and a nested dict with
\* optional_keys of its own satisfies them in turn.
RECURSIVE OptionalSatisfied(_, _)
OptionalSatisfied(obj, keys) ==
    \A i \in DOMAIN keys :
        keys[i].param_name \in DOMAIN obj
        => /\ isinstance(obj[keys[i].param_name], keys[i].param_type)
           /\ ( /\ keys[i].param_type = "dict"
                /\ "optional_keys" \in DOMAIN keys[i] )
              => OptionalSatisfied(obj[keys[i].param_name].items,
                                   keys[i].optional_keys)

\* The nested dict satisfies the lists of a branch; the branch may leave
\* optional_keys out.
BranchSatisfied(items, branch) ==
    validate(items, branch.expected_keys,
             IF "optional_keys" \in DOMAIN branch
             THEN Keys(branch.optional_keys) ELSE None).ret = "True"

\* C5: with a conditional key as the last expected key, whose branches list
\* expected_keys (optional_keys may be left out), a dependency value that
\* selects a branch and the optional keys of the top level satisfied,
\* validate returns True when the nested dict satisfies the lists of that
\* branch and False when it does not.
C5_BranchSelected ==
    ( /\ Called({"validate"})
      /\ ExpectedRuns
      /\ Len(expected_keys) > 0
      /\ Evaluated(json_object, expected_keys, Len(expected_keys))
      /\ HasBranch(json_object, expected_keys[Len(expected_keys)])
      /\ "expected_keys" \in
            DOMAIN Branch(json_object, expected_keys[Len(expected_keys)])
      /\ \/ optional_keys = None
         \/ OptionalSatisfied(json_object, optional_keys.keys) )
    => LET key == expected_keys[Len(expected_keys)]
       IN  IF BranchSatisfied(json_object[key.param_name].items,
                              Branch(json_object, key))
           THEN ret = "True"
           ELSE ret = "False"

\* C7: when all expected keys are present with matching types and the value
\* of one that lists possible_values is not among them, a call that returns
\* a verdict returns False, wherever the key stands in the list.
C7_EnumerationEnforced ==
    ( /\ ExpectedRuns
      /\ Returned
      /\ AllPresent(json_object, expected_keys)
      /\ AllTyped(json_object, expected_keys)
      /\ \E i \in DOMAIN expected_keys :
            ~ValuePermitted(json_object, expected_keys[i]) )
    => ret = "False"

\* C8: validate_optional returns True if and only if every optional key that
\* is present satisfies its type and its nested optional_keys, whatever its
\* position in the list.
C8_OptionalIff ==
    Called({"validate_optional"})
    => (ret = "True" <=> OptionalSatisfied(json_object, optional_keys.keys))

====
